---------------------------- MODULE Spec2Model ----------------------------
(***************************************************************************)
(* The client side of sqf-analyzer-lsp: client/src/extension.ts.           *)
(*                                                                         *)
(* The extension exports two entry points, activate and deactivate, and    *)
(* keeps one module-level variable, client.  activate resolves the server  *)
(* command and its environment, constructs a LanguageClient and starts it; *)
(* deactivate stops the client the variable refers to.                     *)
(*                                                                         *)
(* LanguageClient is the class of vscode-languageclient/node.  Its         *)
(* lifecycle (ClientState) is what the calls new LanguageClient, start()   *)
(* and stop() of extension.ts drive; the steps the library and the server  *)
(* process take on their own (the spawn succeeding or failing, the         *)
(* initialize handshake, the connection closing, the shutdown finishing)   *)
(* are the environment's actions on the clients the extension has built.   *)
(***************************************************************************)
EXTENDS Naturals, Sequences, FiniteSets

(* ---------------------------- bounds ----------------------------------- *)

\* Number of LanguageClient objects constructed in one run.
MaxClients == 2

\* Number of unexpected connection closes one client lives through.
MaxCloses == 1

\* Number of invocations of the editor command in one run.
MaxInvocations == 2

(* ------------------------- input domains ------------------------------- *)

\* Values of process.platform the inputs are drawn from.
Platforms == {"win32", "linux"}

\* Values process.env.SERVER_PATH is drawn from; "unset" stands for an
\* absent variable (undefined in JavaScript).
ServerPaths == {"unset", "", "/usr/local/bin/my-server"}

\* Documents the editor command is invoked with.
Uris == {"a.sqf", "b.sqf"}

\* Ranges a caller of the command may want selected, as
\* <<start line, start character, end line, end character>>.
Ranges == {<<1, 1, 1, 1>>, <<0, 0, 0, 5>>}

\* Errors the host raises when a document cannot be opened or shown.
HostErrors == {"FileNotFound", "EditorClosed"}

\* Values process.env.RUST_LOG is drawn from.
RustLogs == {"unset", "info"}

\* The environment of the host process: a finite map from variable names to
\* strings; HOME stands for the variables the extension never looks at.
MakeEnv(sp, rl) ==
  [k \in {"HOME"} \cup (IF sp = "unset" THEN {} ELSE {"SERVER_PATH"})
                  \cup (IF rl = "unset" THEN {} ELSE {"RUST_LOG"}) |->
     CASE k = "HOME" -> "/home/user"
       [] k = "SERVER_PATH" -> sp
       [] k = "RUST_LOG" -> rl]

HostEnvs == {MakeEnv(sp, rl) : sp \in ServerPaths, rl \in RustLogs}

(* ----------------------------- state ----------------------------------- *)

VARIABLES
  processEnv,   \* process.env of the extension host
  platform,     \* process.platform (never read by extension.ts)
  bundled,      \* a server binary lies beside the extension (never read)
  clients,      \* every LanguageClient constructed so far, in order
  client,       \* the module-level variable: 0 = undefined, else an index
  registered,   \* "helloworld.helloWorld" is registered with the host
  unloading,    \* deactivate was called after the last activation
  ret,          \* the value the last call of deactivate returned
  retOf,        \* the client that call stopped (0: none)
  retFrom,      \* the Session state of that client when it was called
  actRet,       \* how the last call of activate ended
  edges,        \* every Session state change made so far, as <<from, to>>
  invs,         \* the invocations of the editor command, in order
  activeEditor, \* window.activeTextEditor: the document it shows, or "none"
  selection     \* the selection of the editor of each document

\* The editor side of the state.
editorVars == <<invs, activeEditor, selection>>

vars == <<processEnv, platform, bundled, clients, client, registered,
          unloading, ret, retOf, retFrom, actRet, edges,
          invs, activeEditor, selection>>

(* ----------------------- the Session's state --------------------------- *)

\* ClientState of the library as the Session state of the specification:
\* a client not yet started, or whose start failed, holds no process and no
\* channel.
Session(s) == IF s \in {"Initial", "StartFailed"} THEN "Stopped" ELSE s

SessionOf(i) == Session(clients[i].state)

(* ------------------------- pure functions ------------------------------ *)

\* a || b of JavaScript on a string that may be undefined: b when a is
\* undefined or the empty string.
Or(e, k, b) == IF k \in DOMAIN e /\ e[k] # "" THEN e[k] ELSE b

\* { ...a, ...b }: every key of both, b's value where both have the key.
Spread(a, b) ==
  [k \in DOMAIN a \cup DOMAIN b |-> IF k \in DOMAIN b THEN b[k] ELSE a[k]]


\* A resolver that qualifies whatever it resolved with the Windows suffix.
commandSuffixed(e) ==
  IF platform = "win32"
  THEN Or(e, "SERVER_PATH", "sqf-analyzer-server") \o ".exe"
  ELSE Or(e, "SERVER_PATH", "sqf-analyzer-server")

\* A resolver that falls back only when the variable is absent (?? for ||).
commandNullish(e) ==
  IF "SERVER_PATH" \in DOMAIN e THEN e["SERVER_PATH"] ELSE "sqf-analyzer-server"

\* const command = process.env.SERVER_PATH || "sqf-analyzer-server"
command(e) == Or(e, "SERVER_PATH", "sqf-analyzer-server")

\* An environment built with the spread last: { RUST_LOG: "debug", ...e }.
envInheritedWins(e) == Spread([RUST_LOG |-> "debug"], e)

\* run.options.env = { ...process.env, RUST_LOG: "debug" }
env(e) == Spread(e, [RUST_LOG |-> "debug"])

(* ------------------------ the LanguageClient --------------------------- *)

\* new LanguageClient(id, name, serverOptions, clientOptions): the object
\* before start(); it holds the Executable it was given.
LanguageClient(e) ==
  [state   |-> "Initial",
   command |-> command(e),
   env     |-> env(e),
   proc    |-> FALSE,     \* its server process is alive
   closes  |-> 0,         \* unexpected connection closes so far
   starts  |-> 0,         \* calls of start() that took it to Starting
   errors  |-> 0]         \* error notifications shown to the user for it

\* client.start() on a client that is not started: Starting, synchronously.
start(c) == [c EXCEPT !.state = "Starting", !.starts = @ + 1]

\* A stop() that begins the shutdown in whatever state the client is.
stopUnguarded(c) ==
  IF c.state \in {"Initial", "Stopped"} THEN c ELSE [c EXCEPT !.state = "Stopping"]

\* The state client.stop() leaves the client in, synchronously: only a
\* Running client begins the shutdown handshake.
stop(c) == IF c.state = "Running" THEN [c EXCEPT !.state = "Stopping"] ELSE c

\* The promise client.stop() returns: settled for a stopped client, the
\* pending stop for a Running or Stopping one, and rejected ("Client is not
\* running and can't be stopped") for one that is Starting or failed to start.
stopPromise(c) ==
  CASE c.state \in {"Initial", "Stopped"} -> "resolved"
    [] c.state \in {"Running", "Stopping"} -> "pending"
    [] OTHER -> "rejected"

\* The Session state changes a step from s to t makes.
Edge(s, t) == IF Session(s) = Session(t) THEN {} ELSE {<<Session(s), Session(t)>>}

(* ----------------------------- Init ------------------------------------ *)

Init ==
  /\ processEnv \in HostEnvs
  /\ platform \in Platforms
  /\ bundled \in BOOLEAN
  /\ clients = <<>>
  /\ client = 0
  /\ registered = FALSE
  /\ unloading = FALSE
  /\ ret = "none"
  /\ retOf = 0
  /\ retFrom = "none"
  /\ actRet = "none"
  /\ edges = {}
  /\ invs = <<>>
  /\ activeEditor = "none"
  /\ selection = [u \in Uris |-> <<0, 0, 0, 0>>]

(* -------------------------- the entry points --------------------------- *)

\* activate(context).  commands.registerCommand throws when the command is
\* already registered, which rejects the promise of the async function
\* before anything else has run.  Otherwise the client is constructed from
\* the resolved command and environment, assigned to the module variable and
\* started; start() is not awaited.
activate ==
  \/ /\ registered
     /\ actRet' = "rejected"
     /\ UNCHANGED <<processEnv, platform, bundled, clients, client, registered,
                    unloading, ret, retOf, retFrom, edges, editorVars>>
  \/ /\ ~registered
     /\ Len(clients) < MaxClients
     /\ registered' = TRUE
     /\ clients' = Append(clients, start(LanguageClient(processEnv)))
     /\ client' = Len(clients) + 1
     /\ edges' = edges \cup Edge("Initial", start(LanguageClient(processEnv)).state)
     /\ unloading' = FALSE
     /\ actRet' = "resolved"
     /\ UNCHANGED <<processEnv, platform, bundled, ret, retOf, retFrom, editorVars>>

\* A deactivate without its guard: client.stop() on undefined throws.
deactivateUnguarded ==
  /\ unloading' = TRUE
  /\ \/ /\ client = 0
        /\ ret' = "threw"
        /\ retOf' = 0
        /\ retFrom' = "NoClient"
        /\ UNCHANGED <<clients, edges>>
     \/ /\ client # 0
        /\ ret' = stopPromise(clients[client])
        /\ retOf' = client
        /\ retFrom' = SessionOf(client)
        /\ clients' = [clients EXCEPT ![client] = stop(clients[client])]
        /\ edges' = edges \cup Edge(clients[client].state, stop(clients[client]).state)
  /\ UNCHANGED <<processEnv, platform, bundled, client, registered, actRet,
                 editorVars>>

\* deactivate(): undefined when the module variable was never assigned,
\* else whatever client.stop() returns.
deactivate ==
  /\ unloading' = TRUE
  /\ \/ /\ client = 0
        /\ ret' = "undefined"
        /\ retOf' = 0
        /\ retFrom' = "NoClient"
        /\ UNCHANGED <<clients, edges>>
     \/ /\ client # 0
        /\ ret' = stopPromise(clients[client])
        /\ retOf' = client
        /\ retFrom' = SessionOf(client)
        /\ clients' = [clients EXCEPT ![client] = stop(clients[client])]
        /\ edges' = edges \cup Edge(clients[client].state, stop(clients[client]).state)
  /\ UNCHANGED <<processEnv, platform, bundled, client, registered, actRet,
                 editorVars>>

\* The host disposes context.subscriptions when it unloads the extension:
\* the command registered by activate is unregistered.
disposeSubscriptions ==
  /\ unloading
  /\ registered
  /\ registered' = FALSE
  /\ UNCHANGED <<processEnv, platform, bundled, clients, client, unloading,
                 ret, retOf, retFrom, actRet, edges, editorVars>>

(* ------------- the steps of a started client (client.start()) ----------- *)

\* What every step of a client leaves alone.
HostUnchanged ==
  UNCHANGED <<processEnv, platform, bundled, client, registered, unloading,
              retOf, retFrom, actRet, editorVars>>

\* The server process was spawned from the client's command and environment.
SpawnOk(i) ==
  /\ clients[i].state = "Starting"
  /\ ~clients[i].proc
  /\ clients' = [clients EXCEPT ![i].proc = TRUE]
  /\ UNCHANGED <<ret, edges>>
  /\ HostUnchanged

\* A failed spawn that is only logged.
SpawnFailSilent(i) ==
  /\ clients[i].state = "Starting"
  /\ ~clients[i].proc
  /\ clients' = [clients EXCEPT ![i].state = "StartFailed"]
  /\ edges' = edges \cup Edge("Starting", "StartFailed")
  /\ UNCHANGED ret
  /\ HostUnchanged

\* The spawn failed (command not found, permission denied): the start is
\* over, and the client shows one error message.  The rejection of the
\* promise start() returned is not handled by activate.
SpawnFail(i) ==
  /\ clients[i].state = "Starting"
  /\ ~clients[i].proc
  /\ clients' = [clients EXCEPT ![i].state = "StartFailed",
                                ![i].errors = @ + 1]
  /\ edges' = edges \cup Edge("Starting", "StartFailed")
  /\ UNCHANGED ret
  /\ HostUnchanged

\* The initialize handshake with the spawned server finished.
Initialized(i) ==
  /\ clients[i].state = "Starting"
  /\ clients[i].proc
  /\ clients' = [clients EXCEPT ![i].state = "Running"]
  /\ edges' = edges \cup Edge("Starting", "Running")
  /\ UNCHANGED ret
  /\ HostUnchanged

\* The connection of a Running client closed unexpectedly (the server died).
\* clientOptions names no errorHandler, so the client's default handler
\* decides from the closes of the last minutes: it either gives up, with an
\* error message, or silently starts the client again.  Time is not
\* modelled: either verdict may come.
ConnectionClosed(i) ==
  /\ clients[i].state = "Running"
  /\ clients[i].closes < MaxCloses
  /\ \/ /\ clients' = [clients EXCEPT ![i].state = "Stopped",
                                      ![i].proc = FALSE,
                                      ![i].closes = @ + 1,
                                      ![i].errors = @ + 1]
        /\ edges' = edges \cup Edge("Running", "Stopped")
     \/ /\ clients' = [clients EXCEPT ![i] = start([@ EXCEPT !.state = "Initial",
                                                            !.proc = FALSE,
                                                            !.closes = @ + 1])]
        /\ edges' = edges \cup Edge("Running", "Initial")
                          \cup Edge("Initial", start(clients[i]).state)
  /\ UNCHANGED ret
  /\ HostUnchanged

(* ------------- the steps of a stopping client (client.stop()) ------------ *)

\* The promise deactivate returned, once the stop of client i has settled.
Settle(i, how) == IF retOf = i /\ ret = "pending" THEN how ELSE ret

\* The server answered the shutdown request and was sent exit: the
\* connection is disposed, the client is Stopped and the promise of stop()
\* resolves.  The exit of the process itself is not awaited.
StopDone(i) ==
  /\ clients[i].state = "Stopping"
  /\ clients' = [clients EXCEPT ![i].state = "Stopped"]
  /\ edges' = edges \cup Edge("Stopping", "Stopped")
  /\ ret' = Settle(i, "resolved")
  /\ HostUnchanged

\* A shutdown timeout that is also shown to the user as an error.
StopTimeoutNotifies(i) ==
  /\ clients[i].state = "Stopping"
  /\ clients' = [clients EXCEPT ![i].state = "Stopped", ![i].errors = @ + 1]
  /\ edges' = edges \cup Edge("Stopping", "Stopped")
  /\ ret' = Settle(i, "rejected")
  /\ HostUnchanged

\* The server did not answer within the timeout of stop(): the client is
\* Stopped all the same, the failure is logged without a notification and
\* the promise of stop() rejects.
StopTimeout(i) ==
  /\ clients[i].state = "Stopping"
  /\ clients' = [clients EXCEPT ![i].state = "Stopped"]
  /\ edges' = edges \cup Edge("Stopping", "Stopped")
  /\ ret' = Settle(i, "rejected")
  /\ HostUnchanged

\* The process of a stopped client is gone: it exited on the exit
\* notification, or the client killed it after its grace period.
ProcExit(i) ==
  /\ clients[i].state = "Stopped"
  /\ clients[i].proc
  /\ clients' = [clients EXCEPT ![i].proc = FALSE]
  /\ UNCHANGED <<ret, edges>>
  /\ HostUnchanged

(* ------------------------- the specification --------------------------- *)

Next ==
  \/ activate
  \/ deactivate
  \/ disposeSubscriptions
  \/ \E i \in DOMAIN clients : SpawnOk(i)
  \/ \E i \in DOMAIN clients : SpawnFail(i)
  \/ \E i \in DOMAIN clients : Initialized(i)
  \/ \E i \in DOMAIN clients : ConnectionClosed(i)
  \/ \E i \in DOMAIN clients : StopDone(i)
  \/ \E i \in DOMAIN clients : StopTimeout(i)
  \/ \E i \in DOMAIN clients : ProcExit(i)

Spec == Init /\ [][Next]_vars

\* The lifecycle for one choice of inputs (it reads none of them), with the
\* scheduling stop() sets up: the race of the shutdown answer with its
\* timer always ends, and the timer that checks the process always fires.
LifecycleInit ==
  /\ Init
  /\ processEnv = MakeEnv("unset", "unset")
  /\ platform = "linux"
  /\ ~bundled

StopEnds(i) == i \in DOMAIN clients /\ (StopDone(i) \/ StopTimeout(i))

ProcEnds(i) == i \in DOMAIN clients /\ ProcExit(i)

LifecycleSpec ==
  /\ LifecycleInit
  /\ [][Next]_vars
  /\ \A i \in 1..MaxClients : WF_vars(StopEnds(i)) /\ WF_vars(ProcEnds(i))

(* ---------------- the editor command "helloworld.helloWorld" ------------- *)

\* What the command's handler never touches.
SessionUnchanged ==
  UNCHANGED <<processEnv, platform, bundled, clients, client, registered,
              unloading, ret, retOf, retFrom, actRet, edges>>

\* let range = new Range(1, 1, 1, 1)
range == <<1, 1, 1, 1>>

\* The registered command is invoked with a document; want is the range its
\* caller means to have selected (the handler takes the uri alone).  The
\* handler runs up to its first await, of workspace.openTextDocument(uri).
helloWorld(u, want) ==
  /\ registered
  /\ Len(invs) < MaxInvocations
  /\ invs' = Append(invs, [uri |-> u, want |-> want, pc |-> "opening",
                           hostErr |-> "none", err |-> "none",
                           target |-> "none", set |-> <<>>])
  /\ UNCHANGED <<activeEditor, selection>>
  /\ SessionUnchanged

\* openTextDocument resolved: the handler calls window.showTextDocument and
\* suspends again.
openTextDocument(k) ==
  /\ invs[k].pc = "opening"
  /\ invs' = [invs EXCEPT ![k].pc = "showing"]
  /\ UNCHANGED <<activeEditor, selection>>
  /\ SessionUnchanged

\* A handler that wraps the host's error in one of its own.
openTextDocumentFailsWrapped(k, e) ==
  /\ invs[k].pc = "opening"
  /\ invs' = [invs EXCEPT ![k].pc = "failed", ![k].hostErr = e,
                          ![k].err = "CommandFailed"]
  /\ UNCHANGED <<activeEditor, selection>>
  /\ SessionUnchanged

\* openTextDocument rejected with e: the await throws, nothing catches it
\* and the promise of the handler rejects with e.
openTextDocumentFails(k, e) ==
  /\ invs[k].pc = "opening"
  /\ invs' = [invs EXCEPT ![k].pc = "failed", ![k].hostErr = e, ![k].err = e]
  /\ UNCHANGED <<activeEditor, selection>>
  /\ SessionUnchanged

\* The host showed the document: its editor is the active one.  The handler
\* resumes in a later step.
showTextDocument(k) ==
  /\ invs[k].pc = "showing"
  /\ invs' = [invs EXCEPT ![k].pc = "shown"]
  /\ activeEditor' = invs[k].uri
  /\ UNCHANGED selection
  /\ SessionUnchanged

\* showTextDocument rejected with e: the promise of the handler rejects
\* with e.
showTextDocumentFails(k, e) ==
  /\ invs[k].pc = "showing"
  /\ invs' = [invs EXCEPT ![k].pc = "failed", ![k].hostErr = e, ![k].err = e]
  /\ UNCHANGED <<activeEditor, selection>>
  /\ SessionUnchanged

\* The handler resumes after the second await: it reads
\* window.activeTextEditor, whichever editor that is by now, and assigns the
\* fixed range to its selection; reading .document of an absent editor
\* throws a TypeError.
setSelection(k) ==
  /\ invs[k].pc = "shown"
  /\ IF activeEditor = "none"
     THEN /\ invs' = [invs EXCEPT ![k].pc = "failed", ![k].err = "TypeError"]
          /\ UNCHANGED selection
     ELSE /\ invs' = [invs EXCEPT ![k].pc = "done", ![k].target = activeEditor,
                                  ![k].set = range]
          /\ selection' = [selection EXCEPT ![activeEditor] = range]
  /\ UNCHANGED activeEditor
  /\ SessionUnchanged

\* The extension with its command in use: one activation, the start of its
\* client, and the invocations of the command.
CommandNext ==
  \/ activate
  \/ \E i \in DOMAIN clients : SpawnOk(i)
  \/ \E i \in DOMAIN clients : SpawnFail(i)
  \/ \E i \in DOMAIN clients : Initialized(i)
  \/ \E u \in Uris, want \in Ranges : helloWorld(u, want)
  \/ \E k \in DOMAIN invs : openTextDocument(k)
  \/ \E k \in DOMAIN invs, e \in HostErrors : openTextDocumentFails(k, e)
  \/ \E k \in DOMAIN invs : showTextDocument(k)
  \/ \E k \in DOMAIN invs, e \in HostErrors : showTextDocumentFails(k, e)
  \/ \E k \in DOMAIN invs : setSelection(k)

CommandSpec == LifecycleInit /\ [][CommandNext]_vars

(* ============================ the claims =============================== *)

\* Whether the override variable is set to a non-empty string.
Overridden == "SERVER_PATH" \in DOMAIN processEnv /\ processEnv["SERVER_PATH"] # ""

\* The native executable suffix of a platform.
ExeSuffix(p) == IF p = "win32" THEN ".exe" ELSE ""

\* The platform-qualified file name of the server binary.
BinaryName(p) == "sqf-analyzer-server" \o ExeSuffix(p)

\* Where a bundled copy of the binary would lie, beside the extension.
BundledPath(p) == "/extension" \o "/" \o BinaryName(p)

\* The sessions holding, or about to hold, a server process.
Active == {i \in DOMAIN clients : SessionOf(i) \in {"Starting", "Running"}}

\* C1: at most one Session is Starting or Running in every reachable state;
\* an activate while one is does not bring up a second concurrent server.
C1_AtMostOneActive == Cardinality(Active) <= 1

\* C2: a deactivate called on a Running Session takes it to Stopping and then
\* to Stopped, and the promise it returned is resolved only when the Session
\* is Stopped and the server process has exited.
C2_DeactivateAwaitsExit ==
  retFrom = "Running" =>
    /\ SessionOf(retOf) \in {"Stopping", "Stopped"}
    /\ ret = "pending" => SessionOf(retOf) = "Stopping"
    /\ ret = "resolved" => SessionOf(retOf) = "Stopped" /\ ~clients[retOf].proc

C4_NoAutoRestart ==
  \A i \in DOMAIN clients :
    clients[i].closes > 0 =>
      /\ SessionOf(i) = "Stopped"
      /\ clients[i].errors > 0
      /\ ~clients[i].proc

\* C5: deactivate on a Session that is Stopped changes nothing and raises
\* no error.
C5_StopOnStoppedIsNoOp ==
  [][(deactivate /\ client # 0 /\ SessionOf(client) = "Stopped")
       => (clients' = clients /\ ret' # "rejected")]_vars

\* The edges the Session's state machine declares.
DeclaredEdges ==
  {<<"Stopped", "Starting">>, <<"Starting", "Running">>,
   <<"Running", "Stopping">>, <<"Stopping", "Stopped">>,
   <<"Starting", "Stopped">>, <<"Running", "Stopped">>}

\* C6: every state change of a Session follows a declared edge.
C6_DeclaredEdgesOnly == edges \subseteq DeclaredEdges

C6_Witness ==
  /\ edges = DeclaredEdges
  /\ \E i \in DOMAIN clients : clients[i].closes > 0 /\ clients[i].state = "StartFailed"

\* C7: with the override variable set to a non-empty string S, the command of
\* every client is S itself, whatever the platform and whether or not a
\* bundled binary exists.
C7_OverrideVerbatim ==
  \A i \in DOMAIN clients :
    Overridden => clients[i].command = processEnv["SERVER_PATH"]

C7_Witness ==
  /\ Overridden
  /\ platform = "win32"
  /\ bundled
  /\ \E i \in DOMAIN clients : clients[i].command = "/usr/local/bin/my-server"

\* C8: with no override (and no bundled file), the command is the binary
\* name followed by the platform's executable suffix exactly once.
C8_PlatformSuffix ==
  \A i \in DOMAIN clients :
    (~Overridden /\ ~bundled) => clients[i].command = BinaryName(platform)

\* C9: with no override, the command is the bundled binary's absolute path
\* when that file exists, and the bare binary file name when it does not
\* (whichever suffix the file name carries).
C9_BundledFirst ==
  \A i \in DOMAIN clients :
    ~Overridden =>
      clients[i].command \in (IF bundled THEN {BundledPath(p) : p \in Platforms}
                                          ELSE {BinaryName(p) : p \in Platforms})

\* C10: the environment of the server holds every variable of the host's
\* environment with the host's value, except that RUST_LOG is debug, also
\* when the host's environment sets RUST_LOG to something else.
C10_EnvInheritedPlusDebug ==
  \A i \in DOMAIN clients :
    /\ DOMAIN processEnv \subseteq DOMAIN clients[i].env
    /\ \A k \in DOMAIN processEnv \ {"RUST_LOG"} : clients[i].env[k] = processEnv[k]
    /\ "RUST_LOG" \in DOMAIN clients[i].env
    /\ clients[i].env["RUST_LOG"] = "debug"

C10_Witness ==
  /\ "RUST_LOG" \in DOMAIN processEnv
  /\ processEnv["RUST_LOG"] = "info"
  /\ \E i \in DOMAIN clients :
       clients[i].env["RUST_LOG"] = "debug" /\ clients[i].env["HOME"] = processEnv["HOME"]


\* C11: the command of a client is never the empty string, whatever the
\* override variable holds; an empty override counts as unset and gives the
\* default binary name.
C11_CommandNeverEmpty ==
  \A i \in DOMAIN clients :
    /\ clients[i].command # ""
    /\ ~Overridden => clients[i].command = "sqf-analyzer-server"

C11_Witness ==
  /\ "SERVER_PATH" \in DOMAIN processEnv
  /\ processEnv["SERVER_PATH"] = ""
  /\ \E i \in DOMAIN clients : clients[i].command = "sqf-analyzer-server"

\* C18: a deactivate called while the module variable is unassigned returns
\* undefined, asks no client to stop and leaves every Session, process and
\* state change as it was.
C18_DeactivateWithoutClient ==
  [][(deactivate /\ client = 0)
       => /\ ret' = "undefined"
          /\ retOf' = 0
          /\ clients' = clients /\ clients = <<>>
          /\ edges' = edges]_vars

C18_Witness == ret = "undefined" /\ clients = <<>> /\ client = 0 /\ unloading


\* C13: every Session is a client constructed by its own activate and
\* started once, from Stopped; the module variable refers to the newest one,
\* and no Session that has reached Stopped is started a second time.
C13_FreshSessionPerActivate ==
  /\ client = Len(clients)
  /\ \A i \in DOMAIN clients : clients[i].starts = 1


\* C14: a deactivate called while the Session is still Starting still stops
\* it: the call is not rejected, the Session does not become Running
\* afterwards, and once the returned promise has resolved the Session is
\* Stopped with no server process alive.
C14_StopWhileStarting ==
  retFrom = "Starting" =>
    /\ ret \in {"pending", "resolved"}
    /\ SessionOf(retOf) # "Running"
    /\ ret = "resolved" => SessionOf(retOf) = "Stopped" /\ ~clients[retOf].proc

C12_CallerRangeAfterShow ==
  \A k \in DOMAIN invs :
    /\ invs[k].set # <<>> => invs[k].pc = "done"
    /\ invs[k].pc = "done" => invs[k].set = invs[k].want

\* C16: when opening or showing the document fails, the invocation fails
\* with the host's own error, and the selections and the Sessions are what
\* they were before.
C16_OpenFailurePropagates ==
  [][\A k \in DOMAIN invs :
       (invs[k].pc \in {"opening", "showing"} /\ invs'[k].pc = "failed")
         => /\ invs'[k].err = invs'[k].hostErr
            /\ invs'[k].err \in HostErrors
            /\ invs'[k].set = <<>>
            /\ selection' = selection
            /\ clients' = clients
            /\ client' = client]_vars

C16_Witness ==
  /\ \E k \in DOMAIN invs :
       invs[k].pc = "failed" /\ invs[k].err = "FileNotFound" /\ invs[k].set = <<>>
  /\ \E u \in Uris : selection[u] = range
  /\ \E i \in DOMAIN clients : clients[i].state = "Running"

\* C17: every invocation that sets a selection sets it in the editor of the
\* document it was invoked with, and none fails on an absent active editor.
C17_SelectionInOwnEditor ==
  \A k \in DOMAIN invs :
    /\ invs[k].pc = "done" => invs[k].target = invs[k].uri
    /\ invs[k].err # "TypeError"

=============================================================================
